---- MODULE Spec2Model ----
(***************************************************************************)
(* Model of src/main.py: the apartment-trade crawler.  One run of main()   *)
(* checks its configuration, loads the region list, reads the Google sheet *)
(* into df_existing, and then for every month fetches every region         *)
(* (try_api_with_fallback) and uploads the month's batch (upload_to_sheet).*)
(*                                                                         *)
(* Text values are sequences of one-character strings, so that str()/int() *)
(* conversions and the '_'.join of create_unique_id are computed.  Column  *)
(* names are ASCII renderings of the Korean names in the source:           *)
(*   amount = geo-rae-geum-aek, year = nyeon, month = wol, day = il,       *)
(*   area = jeon-yong-myeon-jeok, lot = ji-beon, floor = cheung,           *)
(*   apt = a-pa-teu, sggCd = beop-jeong-dong-si-gun-gu-ko-deu,             *)
(*   data_type = de-i-teo_ta-ip, collect_time = su-jip_si-gan.             *)
(***************************************************************************)
EXTENDS Integers, Sequences, FiniteSets, TLC

VARIABLES
    env,            \* SERVICE_KEY, GOOGLE_CREDENTIALS_JSON, RUN_MODE, lawd_code.csv
    pc,             \* position of main()
    lawd_codes,     \* main's lawd_codes
    sheet,          \* the worksheet (external store): header, rows, row_count
    df_existing,    \* main's df_existing (the in-memory snapshot)
    month_idx,      \* index into MONTHS_TO_FETCH of the month in progress
    code_idx,       \* index into lawd_codes of the next region to fetch
    monthly_data,   \* main's monthly_data
    monthly_real_data, \* main's monthly_real_data
    total_added,    \* main's total_added
    http,           \* HTTP requests issued so far in this run: "none", "probe", "api"
    fetch,          \* record of the last try_api_with_fallback call
    upload,         \* record of the last upload_to_sheet call
    run,            \* number of the run of main() in progress
    served,         \* the script the upstream played to each unit of the first run
    firstRun,       \* the sheet rows at the end of the first run
    hist            \* history of the run: the keys appended, the months whose upload failed,
                    \* the calls of try_api_with_fallback and upload_to_sheet in order

vars == <<env, pc, lawd_codes, sheet, df_existing, month_idx, code_idx,
          monthly_data, monthly_real_data, total_added, http, fetch, upload,
          run, served, firstRun, hist>>

-----------------------------------------------------------------------------
(* Bounds of the model *)

\* most records generate_sample_data draws (the code draws up to 5)
MaxSample == 1
\* most months of MONTHS_TO_FETCH outside TEST and QUICK mode (the code: 3)
MonthWindow == 2
\* most consecutive failing attempts a non-exhausted upstream script plays
MaxFlaky == 1
\* most pages the upstream holds for a unit after its first page
MaxMorePages == 1

-----------------------------------------------------------------------------
(* Text values *)

Digits == <<"0", "1", "2", "3", "4", "5", "6", "7", "8", "9">>

IsDigit(c) == c \in {"0", "1", "2", "3", "4", "5", "6", "7", "8", "9"}

DigitVal(c) == (CHOOSE i \in 1..10 : Digits[i] = c) - 1

\* int(v): defined when v is a non-empty string of digits
IsInt(v) == Len(v) > 0 /\ \A i \in 1..Len(v) : IsDigit(v[i])

RECURSIVE IntOf(_)
IntOf(v) == IF v = <<>> THEN 0
            ELSE 10 * IntOf(SubSeq(v, 1, Len(v) - 1)) + DigitVal(v[Len(v)])

\* str(n) for n >= 0
RECURSIVE StrOf(_)
StrOf(n) == IF n < 10 THEN <<Digits[n + 1]>>
            ELSE StrOf(n \div 10) \o <<Digits[(n % 10) + 1]>>

\* the missing value of a DataFrame cell
NaN == <<"NaN">>

\* astype(str) of one cell
astype_str(v) == IF v = NaN THEN <<"n", "a", "n">> ELSE v

\* float(v) is tried when int(v) fails: digits, one point, digits
IsDecimal(v) ==
    \E p \in 2..(Len(v) - 1) :
        /\ v[p] = "."
        /\ \A i \in (1..Len(v)) \ {p} : IsDigit(v[i])

PointOf(v) == CHOOSE p \in 1..Len(v) : v[p] = "."

RECURSIVE StripZeros(_)
\* the digits of a fraction without its trailing zeros
StripZeros(d) == IF d # <<>> /\ d[Len(d)] = "0" THEN StripZeros(SubSeq(d, 1, Len(d) - 1)) ELSE d

\* the text of the number a decimal string denotes
DecimalStr(v) ==
    LET p == PointOf(v)
        whole == StrOf(IntOf(SubSeq(v, 1, p - 1)))
        frac == StripZeros(SubSeq(v, p + 1, Len(v)))
    IN  IF frac = <<>> THEN whole ELSE whole \o <<".">> \o frac

\* gspread's numericise followed by str(): what a cell read back by
\* get_all_records contributes to a joined key
numericise(v) == IF IsInt(v) THEN StrOf(IntOf(v))
                 ELSE IF IsDecimal(v) THEN DecimalStr(v)
                 ELSE v

\* what the sheet keeps of a value written with USER_ENTERED: numbers are
\* parsed, a missing value is written as the empty cell
user_entered(v) == IF v = NaN THEN <<>> ELSE numericise(v)

-----------------------------------------------------------------------------
(* Sequences *)

Range(s) == {s[i] : i \in 1..Len(s)}

Contains(s, x) == \E i \in 1..Len(s) : s[i] = x

IndexOf(s, x) == CHOOSE i \in 1..Len(s) : s[i] = x

RECURSIVE SelectIdx(_, _, _)
\* the elements s[i] with keep[i], in order
SelectIdx(s, keep, i) ==
    IF i > Len(s) THEN <<>>
    ELSE (IF keep[i] THEN <<s[i]>> ELSE <<>>) \o SelectIdx(s, keep, i + 1)

RECURSIVE Flatten(_)
Flatten(ss) == IF ss = <<>> THEN <<>> ELSE Head(ss) \o Flatten(Tail(ss))

\* s followed by the elements of t that s lacks, in t's order
RECURSIVE UnionSeq(_, _)
UnionSeq(s, t) ==
    IF t = <<>> THEN s
    ELSE UnionSeq(IF Contains(s, Head(t)) THEN s ELSE Append(s, Head(t)), Tail(t))

Max(a, b) == IF a >= b THEN a ELSE b

\* a function on 1..n, as the tuple of its values
Tup(f) == f \o <<>>

-----------------------------------------------------------------------------
(* Records (dicts in insertion order) and DataFrames *)

\* a dict is a sequence of <<key, value>> pairs
DictKeys(d) == Tup([i \in 1..Len(d) |-> d[i][1]])

DictGet(d, k) == IF \E i \in 1..Len(d) : d[i][1] = k
                 THEN d[CHOOSE i \in 1..Len(d) : d[i][1] = k][2]
                 ELSE NaN

\* pd.DataFrame(list of dicts): columns in order of first appearance, NaN
\* where a dict lacks the column
DataFrame(dicts) ==
    LET cols == UnionSeq(<<>>, Flatten(Tup([i \in 1..Len(dicts) |-> DictKeys(dicts[i])])))
    IN  [columns |-> cols,
         rows    |-> Tup([i \in 1..Len(dicts) |->
                        Tup([j \in 1..Len(cols) |-> DictGet(dicts[i], cols[j])])])]

\* df.empty
empty(df) == df.rows = <<>> \/ df.columns = <<>>

HasColumn(df, c) == Contains(df.columns, c)

\* df[c] as a sequence of cells
Column(df, c) == Tup([i \in 1..Len(df.rows) |-> df.rows[i][IndexOf(df.columns, c)]])

\* df[c] = vals (a new column goes last)
SetColumn(df, c, vals) ==
    IF HasColumn(df, c)
    THEN [df EXCEPT !.rows = Tup([i \in 1..Len(df.rows) |->
                                [df.rows[i] EXCEPT ![IndexOf(df.columns, c)] = vals[i]]])]
    ELSE [columns |-> Append(df.columns, c),
          rows    |-> Tup([i \in 1..Len(df.rows) |-> Append(df.rows[i], vals[i])])]

\* df[c] = v for a scalar v
SetScalar(df, c, v) == SetColumn(df, c, Tup([i \in 1..Len(df.rows) |-> v]))

\* df.drop(columns=[c], errors='ignore')
DropColumn(df, c) ==
    IF ~HasColumn(df, c) THEN df
    ELSE LET keep == Tup([j \in 1..Len(df.columns) |-> df.columns[j] # c])
         IN  [columns |-> SelectIdx(df.columns, keep, 1),
              rows    |-> Tup([i \in 1..Len(df.rows) |-> SelectIdx(df.rows[i], keep, 1)])]

\* one row of df laid out on the columns cols
Reindex(df, i, cols) ==
    Tup([j \in 1..Len(cols) |->
        IF HasColumn(df, cols[j]) THEN df.rows[i][IndexOf(df.columns, cols[j])] ELSE NaN])

\* pd.concat([a, b], ignore_index=True)
concat(a, b) ==
    LET cols == UnionSeq(a.columns, b.columns)
    IN  [columns |-> cols,
         rows    |-> Tup([i \in 1..Len(a.rows) |-> Reindex(a, i, cols)])
                     \o Tup([i \in 1..Len(b.rows) |-> Reindex(b, i, cols)])]

\* df[keep]
FilterRows(df, keep) == [df EXCEPT !.rows = SelectIdx(df.rows, keep, 1)]

EmptyFrame == [columns |-> <<>>, rows |-> <<>>]

-----------------------------------------------------------------------------
(* create_unique_id *)

id_cols == <<"amount", "year", "month", "day", "area", "lot", "floor">>

valid_cols(df) == SelectSeq(id_cols, LAMBDA c : HasColumn(df, c))

\* '_'.join over the cells of one row
RECURSIVE join(_)
join(cells) ==
    IF cells = <<>> THEN <<>>
    ELSE IF Len(cells) = 1 THEN cells[1]
    ELSE cells[1] \o <<"_">> \o join(Tail(cells))

\* an identity made of every column of the frame
create_unique_id_every_column(df) ==
    IF empty(df) THEN df
    ELSE SetColumn(df, "unique_id",
            Tup([i \in 1..Len(df.rows) |->
                join(Tup([j \in 1..Len(df.columns) |-> astype_str(df.rows[i][j])]))]))

create_unique_id(df) ==
    IF empty(df) THEN df
    ELSE LET cols == valid_cols(df)
         IN  IF cols # <<>>
             THEN SetColumn(df, "unique_id",
                    Tup([i \in 1..Len(df.rows) |->
                        join(Tup([j \in 1..Len(cols) |->
                                astype_str(df.rows[i][IndexOf(df.columns, cols[j])])]))]))
             ELSE df

-----------------------------------------------------------------------------
(* The worksheet: row 1 is the header, the data rows follow; row_count is  *)
(* the height of the grid.                                                 *)

BlankSheet(n) == [header |-> <<>>, rows |-> <<>>, row_count |-> n]

\* worksheet.row_values(1)
row_values_1(ws) == ws.header

\* worksheet.get_all_records(): one dict per data row, keyed by the header,
\* the cells numericised; nothing when there is no data row
get_all_records(ws) ==
    IF ws.header = <<>> THEN <<>>
    ELSE Tup([i \in 1..Len(ws.rows) |->
            Tup([j \in 1..Len(ws.header) |->
                <<ws.header[j],
                  IF j <= Len(ws.rows[i]) THEN numericise(ws.rows[i][j]) ELSE <<>> >>])])

\* worksheet.clear()
clear(ws) == [ws EXCEPT !.header = <<>>, !.rows = <<>>]

\* new cells written over old ones from the left; old cells further right stay
Overlay(new, old) == new \o SubSeq(old, Len(new) + 1, Len(old))

\* set_with_dataframe(worksheet, df, include_index=False): header and rows
\* are written from cell A1, the grid grows when it is too small
set_with_dataframe(ws, df) ==
    [header    |-> Overlay(df.columns, ws.header),
     rows      |-> Tup([i \in 1..Max(Len(df.rows), Len(ws.rows)) |->
                      IF i <= Len(df.rows)
                      THEN Overlay(Tup([j \in 1..Len(df.columns) |-> user_entered(df.rows[i][j])]),
                                   IF i <= Len(ws.rows) THEN ws.rows[i] ELSE <<>>)
                      ELSE ws.rows[i]]),
     row_count |-> Max(ws.row_count, 1 + Len(df.rows))]

\* worksheet.append_rows(values, value_input_option='USER_ENTERED')
append_rows(ws, values) ==
    [ws EXCEPT !.rows = ws.rows \o Tup([i \in 1..Len(values) |->
                                      Tup([j \in 1..Len(values[i]) |-> user_entered(values[i][j])])]),
               !.row_count = Max(ws.row_count, 1 + Len(ws.rows) + Len(values))]

\* a NaN cell cannot be serialised into the request body of append_rows
HasNaN(values) == \E i \in 1..Len(values) : Contains(values[i], NaN)

-----------------------------------------------------------------------------
(* upload_to_sheet *)

RealLabel == <<"real">>
\* a sample label that reads as the real one
SampleLabel_as_real == RealLabel
SampleLabel == <<"sample">>
\* datetime.now().strftime(...)
Now == <<"now">>

\* lines 297-325: the write itself; fault names the remote call at which the
\* store raises ("none": at none), ok = FALSE when a call raised
WriteSheet(ws, df_to_upload, fault) ==
    IF ws.row_count < 2
    THEN IF fault = "write"
         THEN [ok |-> FALSE, sheet |-> ws]
         ELSE [ok |-> TRUE, sheet |-> set_with_dataframe(ws, df_to_upload)]
    ELSE IF fault = "read"
    THEN [ok |-> FALSE, sheet |-> ws]
    ELSE LET existing_headers == row_values_1(ws)
             new_headers == df_to_upload.columns
         IN  IF Range(new_headers) # Range(existing_headers)
             THEN LET all_data == get_all_records(ws)
                      existing_df == DataFrame(all_data)
                      missing == SelectSeq(new_headers, LAMBDA c : ~HasColumn(existing_df, c))
                      widened == [columns |-> existing_df.columns \o missing,
                                  rows |-> Tup([i \in 1..Len(existing_df.rows) |->
                                              existing_df.rows[i] \o Tup([j \in 1..Len(missing) |-> <<>>])])]
                      combined_df == concat(widened, df_to_upload)
                  IN  IF fault = "clear" THEN [ok |-> FALSE, sheet |-> ws]
                      ELSE IF fault = "write" THEN [ok |-> FALSE, sheet |-> clear(ws)]
                      ELSE [ok |-> TRUE, sheet |-> set_with_dataframe(clear(ws), combined_df)]
             ELSE IF fault = "write" \/ HasNaN(df_to_upload.rows)
                  THEN [ok |-> FALSE, sheet |-> ws]
                  ELSE [ok |-> TRUE, sheet |-> append_rows(ws, df_to_upload.rows)]

\* lines 276-284: the rows of df_new that are not in df_existing
\* a reconciliation that filters nothing out
Reconcile_keep_all(df_new, df_old) == df_new

Reconcile(df_new, df_old) ==
    IF ~empty(df_old)
    THEN FilterRows(df_new,
            Tup([i \in 1..Len(df_new.rows) |->
                ~Contains(Column(df_old, "unique_id"), Column(df_new, "unique_id")[i])]))
    ELSE df_new

\* a snapshot that is not extended
df_existing_stale(df_old, newly_added) == df_old

\* line 327: the snapshot after a successful append
df_existing_updated(df_old, newly_added) == concat(df_old, newly_added)

\* the keys of a frame: its unique_id column, when it has one
KeysOf(df) == IF HasColumn(df, "unique_id") THEN Range(Column(df, "unique_id")) ELSE {}

\* an upload that extends the snapshot also when the write failed
upload_to_sheet_keeps_failed(df_new0, df_existing0, worksheet, is_real_data, fault) ==
    IF empty(df_new0)
    THEN [raised |-> FALSE, ret |-> 0, df_existing |-> df_existing0, sheet |-> worksheet,
          newly_added |-> EmptyFrame]
    ELSE
    LET data_type == IF is_real_data THEN RealLabel ELSE SampleLabel
        df_new == create_unique_id(df_new0)
        df_old == IF ~empty(df_existing0) /\ ~HasColumn(df_existing0, "unique_id")
                       THEN create_unique_id(df_existing0)
                       ELSE df_existing0
    IN  IF ~empty(df_old) /\ (~HasColumn(df_new, "unique_id")
                                     \/ ~HasColumn(df_old, "unique_id"))
        THEN [raised |-> TRUE, ret |-> -1, df_existing |-> df_old, sheet |-> worksheet,
              newly_added |-> EmptyFrame]
        ELSE
        LET newly_added0 == Reconcile(df_new, df_old)
        IN  IF empty(newly_added0)
            THEN [raised |-> FALSE, ret |-> 0, df_existing |-> df_old, sheet |-> worksheet,
                  newly_added |-> newly_added0]
            ELSE
            LET newly_added == SetScalar(SetScalar(newly_added0, "data_type", data_type),
                                         "collect_time", Now)
                count == Len(newly_added.rows)
                df_to_upload == DropColumn(newly_added, "unique_id")
                w == WriteSheet(worksheet, df_to_upload, fault)
            IN  IF w.ok
                THEN [raised |-> FALSE, ret |-> count, df_existing |-> df_existing_updated(df_old, newly_added),
                      sheet |-> w.sheet, newly_added |-> newly_added]
                ELSE [raised |-> FALSE, ret |-> -1,
                      df_existing |-> df_existing_updated(df_old, newly_added), sheet |-> w.sheet,
                      newly_added |-> newly_added]

\* ret is the first returned value (the count, 0 or -1); raised = TRUE when a
\* KeyError leaves the function instead; newly_added is kept for the record
upload_to_sheet(df_new0, df_existing0, worksheet, is_real_data, fault) ==
    IF empty(df_new0)
    THEN [raised |-> FALSE, ret |-> 0, df_existing |-> df_existing0, sheet |-> worksheet,
          newly_added |-> EmptyFrame]
    ELSE
    LET data_type == IF is_real_data THEN RealLabel ELSE SampleLabel
        df_new == create_unique_id(df_new0)
        df_old == IF ~empty(df_existing0) /\ ~HasColumn(df_existing0, "unique_id")
                       THEN create_unique_id(df_existing0)
                       ELSE df_existing0
    IN  IF ~empty(df_old) /\ (~HasColumn(df_new, "unique_id")
                                     \/ ~HasColumn(df_old, "unique_id"))
        THEN [raised |-> TRUE, ret |-> -1, df_existing |-> df_old, sheet |-> worksheet,
              newly_added |-> EmptyFrame]
        ELSE
        LET newly_added0 == Reconcile(df_new, df_old)
        IN  IF empty(newly_added0)
            THEN [raised |-> FALSE, ret |-> 0, df_existing |-> df_old, sheet |-> worksheet,
                  newly_added |-> newly_added0]
            ELSE
            LET newly_added == SetScalar(SetScalar(newly_added0, "data_type", data_type),
                                         "collect_time", Now)
                count == Len(newly_added.rows)
                df_to_upload == DropColumn(newly_added, "unique_id")
                w == WriteSheet(worksheet, df_to_upload, fault)
            IN  IF w.ok
                THEN [raised |-> FALSE, ret |-> count, df_existing |-> df_existing_updated(df_old, newly_added),
                      sheet |-> w.sheet, newly_added |-> newly_added]
                ELSE [raised |-> FALSE, ret |-> -1, df_existing |-> df_old, sheet |-> w.sheet,
                      newly_added |-> newly_added]

-----------------------------------------------------------------------------
(* Configuration: lines 19-49 and get_lawd_codes *)

Jongno   == <<"1", "1", "1", "1", "0">>
Gangnam  == <<"1", "1", "6", "8", "0">>
Seongnam == <<"4", "1", "1", "3", "5">>
\* an aggregate code, excluded by get_lawd_codes
Seoul    == <<"1", "1", "0", "0", "0">>

\* today_kst, as far as strftime('%Y%m') reads it
today_kst == [year |-> 2026, month |-> 1]

\* (today_kst - relativedelta(months=i)).strftime('%Y%m')
strftime_Ym(i) ==
    LET k == today_kst.year * 12 + (today_kst.month - 1) - i
        m == (k % 12) + 1
    IN  StrOf(k \div 12) \o (IF m < 10 THEN <<"0">> ELSE <<>>) \o StrOf(m)

MONTHS_TO_FETCH(RUN_MODE) ==
    IF RUN_MODE \in {"TEST", "QUICK"} THEN <<strftime_Ym(0)>>
    ELSE Tup([i \in 1..MonthWindow |-> strftime_Ym(i - 1)])

TARGET_REGIONS(RUN_MODE) == IF RUN_MODE = "TEST" THEN <<Jongno>> ELSE <<>>

major_city_prefixes ==
    << <<"1", "1">>, <<"2", "6">>, <<"2", "7">>, <<"2", "8">>,
       <<"2", "9">>, <<"3", "0">>, <<"3", "1">>, <<"3", "6">> >>

startswith(c, pre) == Len(c) >= Len(pre) /\ SubSeq(c, 1, Len(pre)) = pre

endswith(c, suf) == Len(c) >= Len(suf) /\ SubSeq(c, Len(c) - Len(suf) + 1, Len(c)) = suf

\* csv is the region file: whether it exists, whether it has a 'code'
\* column, and the codes of that column
get_lawd_codes(csv, RUN_MODE) ==
    IF ~csv.exists THEN <<>>
    ELSE IF ~csv.code_column THEN <<>>
    ELSE LET valid_codes == SelectSeq(csv.codes,
                LAMBDA c : /\ Len(c) = 5
                           /\ IsInt(c)
                           /\ ~endswith(c, <<"0", "0", "0">>))
         IN  IF TARGET_REGIONS(RUN_MODE) # <<>>
             THEN SelectSeq(valid_codes, LAMBDA c : Contains(TARGET_REGIONS(RUN_MODE), c))
             ELSE IF RUN_MODE = "QUICK"
             THEN SelectSeq(valid_codes,
                     LAMBDA c : \E i \in 1..Len(major_city_prefixes) :
                                    startswith(c, major_city_prefixes[i]))
             ELSE valid_codes

-----------------------------------------------------------------------------
(* The upstream API: items and scripted responses *)

\* one item of a response, as the dict built at lines 159-161
\* (of the columns of id_cols the items carry lot and floor no more than
\* the sample records below do)
Item(amount, day, apt, sgg) ==
    << <<"amount", amount>>, <<"year", <<"2", "0", "2", "6">> >>, <<"month", <<"1">> >>,
       <<"day", day>>, <<"area", <<"8", "4", ".", "9">> >>,
       <<"apt", apt>>, <<"sggCd", sgg>> >>

R1 == Item(<<"50,000">>, <<"5">>, <<"A">>, Jongno)
\* R1 with another value in a column outside id_cols
R2 == Item(<<"50,000">>, <<"5">>, <<"B">>, Jongno)
\* R1 with the day zero-padded
R3 == Item(<<"50,000">>, <<"0", "5">>, <<"A">>, Jongno)
\* R1 with another region code
R4 == Item(<<"50,000">>, <<"5">>, <<"A">>, Gangnam)
\* an item of the endpoint that names its fields in English
R5 == << <<"dealAmount", <<"50,000">> >>, <<"aptNm", <<"A">> >> >>
\* another trade, its children in another order
R6 == << <<"apt", <<"C">> >>, <<"sggCd", Jongno>>, <<"amount", <<"61,000">> >>,
         <<"year", <<"2", "0", "2", "6">> >>, <<"month", <<"1">> >>, <<"day", <<"9">> >>,
         <<"area", <<"8", "4", ".", "9">> >> >>

\* kinds of response after which the attempt loop goes on
RetryKinds == {"transport", "status", "parse", "no_code", "api_error", "empty_items"}

Outcome(kind, items) == [kind |-> kind, items |-> items]

\* 'pageNo': '1' at line 113, the page every request asks for
pageNo == 1

\* what the upstream holds as page p of a unit: `then` is its first page,
\* `rest` the pages after it; a page past the last has no item
PageAt(script, p) ==
    IF p = 1 THEN script.then
    ELSE IF script.then.kind = "items" /\ p - 1 <= Len(script.rest)
    THEN Outcome("items", script.rest[p - 1])
    ELSE Outcome("no_item", <<>>)

\* a script is what the upstream plays to the successive requests of one
\* unit: `fails` times the failure `fail`, and from there on the page asked for
Response(script, n) ==
    IF n <= script.fails THEN Outcome(script.fail, <<>>) ELSE PageAt(script, pageNo)

API_URLS == <<"http_molit", "https_molit", "data_go_kr">>

\* range(2) at line 121
AttemptsPerUrl == 2

RECURSIVE Attempts_once_per_url(_, _, _, _)
\* the attempt loop with one request per URL
Attempts_once_per_url(script, url_idx, attempt, log) ==
    IF url_idx > Len(API_URLS) THEN [returned |-> FALSE, data |-> <<>>, log |-> log]
    ELSE IF attempt >= 1 THEN Attempts_once_per_url(script, url_idx + 1, 0, log)
    ELSE LET r == Response(script, Len(log) + 1)
             log2 == Append(log, r.kind)
         IN  IF r.kind = "items" THEN [returned |-> TRUE, data |-> r.items, log |-> log2]
             ELSE IF r.kind \in {"no_item", "nodata"}
             THEN [returned |-> TRUE, data |-> <<>>, log |-> log2]
             ELSE Attempts_once_per_url(script, url_idx, attempt + 1, log2)

RECURSIVE Attempts_retry_nodata(_, _, _, _)
\* the attempt loop going on after a '99' response
Attempts_retry_nodata(script, url_idx, attempt, log) ==
    IF url_idx > Len(API_URLS) THEN [returned |-> FALSE, data |-> <<>>, log |-> log]
    ELSE IF attempt >= AttemptsPerUrl THEN Attempts_retry_nodata(script, url_idx + 1, 0, log)
    ELSE LET r == Response(script, Len(log) + 1)
             log2 == Append(log, r.kind)
         IN  IF r.kind = "items" THEN [returned |-> TRUE, data |-> r.items, log |-> log2]
             ELSE IF r.kind = "no_item"
             THEN [returned |-> TRUE, data |-> <<>>, log |-> log2]
             ELSE Attempts_retry_nodata(script, url_idx, attempt + 1, log2)

RECURSIVE Attempts(_, _, _, _)
\* lines 118-186 from attempt `attempt` of URL url_idx on; log holds the
\* kinds of the responses to the requests issued so far
Attempts(script, url_idx, attempt, log) ==
    IF url_idx > Len(API_URLS) THEN [returned |-> FALSE, data |-> <<>>, log |-> log]
    ELSE IF attempt >= AttemptsPerUrl THEN Attempts(script, url_idx + 1, 0, log)
    ELSE LET r == Response(script, Len(log) + 1)
             log2 == Append(log, r.kind)
         IN  IF r.kind = "items" THEN [returned |-> TRUE, data |-> r.items, log |-> log2]
             ELSE IF r.kind \in {"no_item", "nodata"}
             THEN [returned |-> TRUE, data |-> <<>>, log |-> log2]
             ELSE Attempts(script, url_idx, attempt + 1, log2)

\* the two ends of random.randint(30000, 150000)
SampleAmounts == { <<"3", "0", "0", "0", "0">>, <<"1", "5", "0", "0", "0", "0">> }

\* draws: the amounts drawn for the records; the other random fields take
\* the low end of their range; lot, floor and the columns outside id_cols
\* other than apt and the region code are left out
generate_sample_data(lawd_cd, deal_ymd, draws) ==
    Tup([i \in 1..Len(draws) |->
        << <<"amount", draws[i]>>,
           <<"year", SubSeq(deal_ymd, 1, 4)>>,
           <<"month", SubSeq(deal_ymd, 5, 6)>>,
           <<"day", <<"0", "1">> >>,
           <<"area", <<"6", "0", ".", "1", "0">> >>,
           <<"apt", <<"test_apt_1">> >>,
           <<"sggCd", lawd_cd>> >>])

\* a fallback that passes its sample records off as real
try_api_with_fallback_as_real(lawd_cd, deal_ymd, script, draws) ==
    LET a == Attempts(script, 1, 0, <<>>)
    IN  [data |-> IF a.returned THEN a.data
                  ELSE generate_sample_data(lawd_cd, deal_ymd, draws),
         is_real |-> TRUE, log |-> a.log]

\* the result of try_api_with_fallback for a script and the random draws
try_api_with_fallback(lawd_cd, deal_ymd, script, draws) ==
    LET a == Attempts(script, 1, 0, <<>>)
    IN  IF a.returned
        THEN [data |-> a.data, is_real |-> TRUE, log |-> a.log]
        ELSE [data |-> generate_sample_data(lawd_cd, deal_ymd, draws),
              is_real |-> FALSE, log |-> a.log]

-----------------------------------------------------------------------------
(* Inputs of a run.  env.profile names the part of the environment a       *)
(* specification varies: "store" varies the sheet, the batches and the     *)
(* store's faults; "fetch" varies the responses of the upstream; "rerun"   *)
(* runs main() twice against the same responses.                           *)

Csv(codes) == [exists |-> TRUE, code_column |-> TRUE, codes |-> codes]

\* region files from which no code is kept
BadCsvFiles ==
    { [exists |-> FALSE, code_column |-> FALSE, codes |-> <<>>],
      [exists |-> TRUE, code_column |-> FALSE, codes |-> <<>>],
      Csv(<<Seoul>>) }

Env(profile, key, creds, mode, csv) ==
    [profile |-> profile, SERVICE_KEY |-> key, GOOGLE_CREDENTIALS_JSON |-> creds,
     RUN_MODE |-> mode, csv |-> csv]

\* runs that fetch: one unit (TEST), two regions of one month (QUICK), one
\* region of every month of the window
Working(profile) ==
    { Env(profile, TRUE, "valid", "TEST", Csv(<<Jongno, Seoul, Gangnam>>)),
      Env(profile, TRUE, "valid", "QUICK", Csv(<<Seongnam, Jongno, Seoul, Gangnam>>)),
      Env(profile, TRUE, "valid", "FULL", Csv(<<Jongno>>)) }

Envs(profile) ==
    IF profile = "store"
    THEN Working(profile)
            \cup { Env(profile, key, creds, "TEST", Csv(<<Jongno>>)) :
                     key \in BOOLEAN, creds \in {"unset", "invalid", "valid"} }
            \cup { Env(profile, TRUE, "valid", mode, csv) :
                     mode \in {"TEST", "QUICK", "FULL"},
                     csv \in BadCsvFiles \cup {Csv(<<Seongnam>>)} }
    ELSE Working(profile)

\* the item lists the upstream may hold for a region
Pages(profile, lawd_cd) ==
    IF profile = "fetch" THEN { <<Item(<<"50,000">>, <<"5">>, <<"A">>, lawd_cd)>> }
    ELSE IF lawd_cd = Gangnam THEN { <<R4>>, <<R5>> }
    ELSE IF profile = "rerun" THEN { <<R1>>, <<R3>> }
    ELSE { <<R1, R2>>, <<R6>>, <<R5>> }

Terminal(profile, lawd_cd) ==
    { Outcome("nodata", <<>>), Outcome("no_item", <<>>) }
        \cup { Outcome("items", items) : items \in Pages(profile, lawd_cd) }

Exhausted(kinds) ==
    { [fail |-> k, fails |-> 0, then |-> Outcome(k, <<>>), rest |-> <<>>] : k \in kinds }

\* the pages the upstream may hold after the first: up to MaxMorePages pages
\* of one item each
MorePages(lawd_cd) ==
    { Tup([p \in 1..n |-> <<Item(<<"70,000">>, StrOf(p), <<"A">>, lawd_cd)>>]) :
        n \in 1..MaxMorePages }

Scripts(profile, lawd_cd) ==
    { [fail |-> "transport", fails |-> 0, then |-> t, rest |-> <<>>] :
        t \in Terminal(profile, lawd_cd) }
        \cup
    (IF profile = "fetch"
     THEN Exhausted(RetryKinds)
            \cup { [fail |-> k, fails |-> f, then |-> t, rest |-> <<>>] :
                     k \in RetryKinds, f \in 1..MaxFlaky, t \in Terminal(profile, lawd_cd) }
            \cup { [fail |-> "transport", fails |-> 0,
                    then |-> Outcome("items", items), rest |-> more] :
                     items \in Pages(profile, lawd_cd), more \in MorePages(lawd_cd) }
     ELSE {})

\* the draws of generate_sample_data: up to MaxSample amounts
SampleDraws ==
    UNION { [1..n -> SampleAmounts] : n \in 0..MaxSample }

\* the remote call of the upload at which the store may raise
Faults == {"none", "read", "clear", "write"}

FaultsOf(profile) == IF profile = "store" THEN Faults ELSE {"none", "write"}

\* the sheet a run of this program leaves behind on a new spreadsheet
SheetOf(items) ==
    upload_to_sheet(DataFrame(items), EmptyFrame, BlankSheet(2), TRUE, "none").sheet

Sheets(profile) ==
    IF profile = "store"
    THEN { BlankSheet(1), BlankSheet(2), SheetOf(<<R1>>),
           [BlankSheet(1) EXCEPT !.header = <<"amount", "day">>] }
    ELSE { BlankSheet(2) }

NoHist == [appended |-> {}, write_errors |-> 0, events |-> <<>>]
NoFetch == [active |-> FALSE]
NoUpload == [active |-> FALSE]

InitOf(profile) ==
    /\ env \in Envs(profile)
    /\ sheet \in Sheets(profile)
    /\ pc = "start"
    /\ lawd_codes = <<>>
    /\ df_existing = EmptyFrame
    /\ month_idx = 1
    /\ code_idx = 1
    /\ monthly_data = <<>>
    /\ monthly_real_data = TRUE
    /\ total_added = 0
    /\ http = "none"
    /\ fetch = NoFetch
    /\ upload = NoUpload
    /\ run = 1
    /\ served = <<>>
    /\ firstRun = [rows |-> <<>>, write_errors |-> 0]
    /\ hist = NoHist

Init == InitOf("store")

InitFetch == InitOf("fetch")

InitRerun == InitOf("rerun")

-----------------------------------------------------------------------------
(* main() *)

months == MONTHS_TO_FETCH(env.RUN_MODE)

\* lines 344-354: the environment variables
CheckConfig ==
    /\ pc = "start"
    /\ pc' = IF ~env.SERVICE_KEY \/ env.GOOGLE_CREDENTIALS_JSON = "unset"
             THEN "exit" ELSE "probe"
    /\ UNCHANGED <<env, lawd_codes, sheet, df_existing, month_idx, code_idx,
                   monthly_data, monthly_real_data, total_added, http, fetch,
                   upload, run, served, firstRun, hist>>

\* line 357: test_basic_network() requests its four test sites
TestBasicNetwork ==
    /\ pc = "probe"
    /\ http' = "probe"
    /\ pc' = "codes"
    /\ UNCHANGED <<env, lawd_codes, sheet, df_existing, month_idx, code_idx,
                   monthly_data, monthly_real_data, total_added, fetch,
                   upload, run, served, firstRun, hist>>

\* lines 360-365
LoadCodes ==
    /\ pc = "codes"
    /\ lawd_codes' = get_lawd_codes(env.csv, env.RUN_MODE)
    /\ pc' = IF lawd_codes' = <<>> THEN "exit" ELSE "sheets"
    /\ UNCHANGED <<env, sheet, df_existing, month_idx, code_idx,
                   monthly_data, monthly_real_data, total_added, http, fetch,
                   upload, run, served, firstRun, hist>>

\* lines 367-405: the credentials are parsed, the sheet is opened and read;
\* gspread may raise at any of its calls
InitSheets ==
    /\ pc = "sheets"
    /\ \E reachable \in BOOLEAN :
          IF env.GOOGLE_CREDENTIALS_JSON # "valid" \/ ~reachable
          THEN /\ pc' = "exit"
               /\ UNCHANGED <<df_existing, total_added>>
          ELSE /\ pc' = "loop"
               /\ df_existing' = DataFrame(get_all_records(sheet))
               /\ total_added' = 0
    /\ month_idx' = 1
    /\ code_idx' = 1
    /\ monthly_data' = <<>>
    /\ monthly_real_data' = TRUE
    /\ UNCHANGED <<env, lawd_codes, sheet, http, fetch, upload, run, served, firstRun, hist>>

\* the number of the unit in the order of the run
UnitNo == (month_idx - 1) * Len(lawd_codes) + code_idx

\* lines 414-430: one turn of the inner loop
FetchUnit ==
    /\ pc = "loop"
    /\ month_idx <= Len(months)
    /\ code_idx <= Len(lawd_codes)
    /\ LET code == lawd_codes[code_idx]
           month == months[month_idx]
       IN  \E script \in (IF run = 1 THEN Scripts(env.profile, code) ELSE {served[UnitNo]}) :
           \E draws \in (IF Attempts(script, 1, 0, <<>>).returned THEN {<<>>} ELSE SampleDraws) :
              LET r == try_api_with_fallback(code, month, script, draws)
              IN  /\ monthly_data' = monthly_data \o r.data
                  /\ monthly_real_data' = IF r.data # <<>> /\ ~r.is_real
                                          THEN FALSE ELSE monthly_real_data
                  /\ fetch' = [active |-> TRUE, code |-> code, month |-> month,
                               data |-> r.data, is_real |-> r.is_real, log |-> r.log,
                               script |-> script,
                               pageNos |-> Tup([i \in 1..Len(r.log) |-> pageNo])]
                  /\ served' = IF env.profile = "rerun" /\ run = 1
                               THEN Append(served, script) ELSE served
    /\ code_idx' = code_idx + 1
    /\ http' = "api"
    /\ upload' = NoUpload
    /\ hist' = [hist EXCEPT !.events = Append(@, <<"fetch", month_idx, code_idx>>)]
    /\ UNCHANGED <<env, pc, lawd_codes, sheet, df_existing, month_idx,
                   total_added, run, firstRun>>

\* an upload that does not wait for the last region of the month
UploadMonth_any_time ==
    /\ pc = "loop"
    /\ month_idx <= Len(months)
    /\ code_idx > 1
    /\ IF monthly_data = <<>>
       THEN /\ upload' = NoUpload
            /\ UNCHANGED <<pc, sheet, df_existing, total_added, hist>>
       ELSE \E fault \in FaultsOf(env.profile) :
           \E u \in {upload_to_sheet(DataFrame(monthly_data), df_existing, sheet,
                                     monthly_real_data, fault)} :
                  /\ upload' = [active |-> TRUE, month |-> month_idx,
                                df_new |-> DataFrame(monthly_data), snapshot |-> df_existing,
                                before |-> sheet, is_real |-> monthly_real_data,
                                appended |-> hist.appended,
                                newly_added |-> u.newly_added,
                                raised |-> u.raised, added |-> u.ret]
                  /\ hist' = [appended |-> IF u.ret > 0
                                           THEN hist.appended \cup KeysOf(u.newly_added)
                                           ELSE hist.appended,
                              write_errors |-> IF ~u.raised /\ u.ret < 0
                                               THEN hist.write_errors + 1
                                               ELSE hist.write_errors,
                              events |-> Append(hist.events, <<"upload", month_idx, 0>>)]
                  /\ sheet' = u.sheet
                  /\ IF u.raised
                     THEN /\ pc' = "crash"
                          /\ UNCHANGED <<df_existing, total_added>>
                     ELSE /\ pc' = pc
                          /\ df_existing' = u.df_existing
                          /\ total_added' = IF u.ret > 0 THEN total_added + u.ret
                                            ELSE total_added
    /\ month_idx' = month_idx + 1
    /\ code_idx' = 1
    /\ monthly_data' = <<>>
    /\ monthly_real_data' = TRUE
    /\ fetch' = NoFetch
    /\ UNCHANGED <<env, lawd_codes, http, run, served, firstRun>>

\* lines 432-451: the month's batch is reconciled and written; lines 411-412
\* of the next turn
UploadMonth ==
    /\ pc = "loop"
    /\ month_idx <= Len(months)
    /\ code_idx > Len(lawd_codes)
    /\ IF monthly_data = <<>>
       THEN /\ upload' = NoUpload
            /\ UNCHANGED <<pc, sheet, df_existing, total_added, hist>>
       ELSE \E fault \in FaultsOf(env.profile) :
           \E u \in {upload_to_sheet(DataFrame(monthly_data), df_existing, sheet,
                                     monthly_real_data, fault)} :
                  /\ upload' = [active |-> TRUE, month |-> month_idx,
                                df_new |-> DataFrame(monthly_data), snapshot |-> df_existing,
                                before |-> sheet, is_real |-> monthly_real_data,
                                appended |-> hist.appended,
                                newly_added |-> u.newly_added,
                                raised |-> u.raised, added |-> u.ret]
                  /\ hist' = [appended |-> IF u.ret > 0
                                           THEN hist.appended \cup KeysOf(u.newly_added)
                                           ELSE hist.appended,
                              write_errors |-> IF ~u.raised /\ u.ret < 0
                                               THEN hist.write_errors + 1
                                               ELSE hist.write_errors,
                              events |-> Append(hist.events, <<"upload", month_idx, 0>>)]
                  /\ sheet' = u.sheet
                  /\ IF u.raised
                     THEN /\ pc' = "crash"
                          /\ UNCHANGED <<df_existing, total_added>>
                     ELSE /\ pc' = pc
                          /\ df_existing' = u.df_existing
                          /\ total_added' = IF u.ret > 0 THEN total_added + u.ret
                                            ELSE total_added
    /\ month_idx' = month_idx + 1
    /\ code_idx' = 1
    /\ monthly_data' = <<>>
    /\ monthly_real_data' = TRUE
    /\ fetch' = NoFetch
    /\ UNCHANGED <<env, lawd_codes, http, run, served, firstRun>>

\* lines 453-468: the report
Finish ==
    /\ pc = "loop"
    /\ month_idx > Len(months)
    /\ pc' = "done"
    /\ UNCHANGED <<env, lawd_codes, sheet, df_existing, month_idx, code_idx,
                   monthly_data, monthly_real_data, total_added, http, fetch,
                   upload, run, served, firstRun, hist>>

\* main() is started again: the sheet and the upstream's responses stay
Rerun ==
    /\ pc = "done"
    /\ run = 1
    /\ run' = 2
    /\ firstRun' = [rows |-> sheet.rows, write_errors |-> hist.write_errors]
    /\ hist' = NoHist
    /\ pc' = "start"
    /\ lawd_codes' = <<>>
    /\ df_existing' = EmptyFrame
    /\ month_idx' = 1
    /\ code_idx' = 1
    /\ total_added' = 0
    /\ http' = "none"
    /\ fetch' = NoFetch
    /\ upload' = NoUpload
    /\ UNCHANGED <<env, sheet, monthly_data, monthly_real_data, served>>

Next ==
    \/ CheckConfig
    \/ TestBasicNetwork
    \/ LoadCodes
    \/ InitSheets
    \/ FetchUnit
    \/ UploadMonth
    \/ Finish

NextRerun == Next \/ Rerun

Spec == Init /\ [][Next]_vars

SpecFetch == InitFetch /\ [][Next]_vars

SpecRerun == InitRerun /\ [][NextRerun]_vars

-----------------------------------------------------------------------------
(* Claims *)

\* C1 (idempotence): at the end of a second run of main() that was played
\* the same upstream responses as the first and loaded the sheet the first
\* run left, no upload of either run having failed, the second run has
\* appended nothing: the sheet holds the rows the first run left and
\* total_added is 0.
C1_SecondRunAppendsNothing ==
    (run = 2 /\ pc = "done" /\ firstRun.write_errors = 0 /\ hist.write_errors = 0)
        => (sheet.rows = firstRun.rows /\ total_added = 0)

\* the snapshot as a call of upload_to_sheet reads it: no key when the frame
\* is empty, else its unique_id column, derived first when it is missing
SnapshotKeys(snapshot) ==
    IF empty(snapshot) THEN {}
    ELSE IF HasColumn(snapshot, "unique_id") THEN KeysOf(snapshot)
    ELSE KeysOf(create_unique_id(snapshot))

\* the records of the batch of the last upload whose key the snapshot lacks,
\* in batch order
AbsentFromSnapshot(u) ==
    LET batch == create_unique_id(u.df_new)
        keys == SnapshotKeys(u.snapshot)
    IN  SelectIdx(batch.rows,
                  Tup([i \in 1..Len(batch.rows) |->
                         ~HasColumn(batch, "unique_id")
                            \/ Column(batch, "unique_id")[i] \notin keys]),
                  1)

\* the records upload_to_sheet handed to the write, as they were in the batch
HandedToWrite(u) ==
    DropColumn(DropColumn(u.newly_added, "data_type"), "collect_time").rows

\* C2: for every call of upload_to_sheet that returns, the records taken as
\* new and handed to the write are exactly the records of the batch whose
\* identity key is absent from the snapshot at the time of the call, in batch
\* order; the sheet grows by exactly these records when the write succeeds,
\* the k-th new row holding the cells of the k-th of them, and by none when
\* there is nothing new or the write fails.
C2_NewIffAbsent ==
    (upload.active /\ ~upload.raised) =>
        /\ HandedToWrite(upload) = AbsentFromSnapshot(upload)
        /\ upload.added \in {-1, 0, Len(AbsentFromSnapshot(upload))}
        /\ upload.added = 0 <=> AbsentFromSnapshot(upload) = <<>>
        /\ IF upload.added > 0
           THEN /\ Len(sheet.rows) = Len(upload.before.rows) + upload.added
                /\ \A k \in 1..upload.added :
                      \A c \in Range(DropColumn(upload.newly_added, "unique_id").rows[k]) :
                         c = NaN \/ user_entered(c)
                                       \in Range(sheet.rows[Len(upload.before.rows) + k])
           ELSE Len(sheet.rows) <= Len(upload.before.rows)

\* C2 witness: an upload that wrote some records of its batch and dropped
\* others as duplicates of the snapshot.
C2_Witness ==
    /\ upload.active
    /\ upload.added > 0
    /\ upload.added < Len(upload.df_new.rows)
    /\ Len(sheet.rows) = Len(upload.before.rows) + upload.added

\* C3: one upload never appends two rows with the same identity key (of the
\* records of a batch that share a key only the first is written).
C3_FirstOccurrenceOnly ==
    (upload.active /\ upload.added > 0 /\ HasColumn(upload.newly_added, "unique_id")) =>
        \A i, j \in 1..Len(upload.newly_added.rows) :
            i # j => Column(upload.newly_added, "unique_id")[i]
                        # Column(upload.newly_added, "unique_id")[j]

\* C4: the snapshot holds the key of every record this run has appended, and
\* no upload takes as new a record whose key an earlier upload of the run
\* appended.
C4_SnapshotExtended ==
    /\ hist.appended \subseteq KeysOf(df_existing)
    /\ (upload.active /\ ~upload.raised) =>
            KeysOf(upload.newly_added) \cap upload.appended = {}

\* C4 witness: the upload of a later month whose batch has a record with a
\* key appended earlier in the run; the record is not written again.
C4_Witness ==
    /\ upload.active
    /\ ~upload.raised
    /\ upload.month > 1
    /\ KeysOf(create_unique_id(upload.df_new)) \cap upload.appended # {}
    /\ upload.added = 0
    /\ sheet = upload.before

\* C5: the sheet is append-only: every step leaves every existing row in
\* place with its cells unchanged.
C5_AppendOnly ==
    [][\A i \in 1..Len(sheet.rows) :
          /\ i <= Len(sheet'.rows)
          /\ Len(sheet'.rows[i]) >= Len(sheet.rows[i])
          /\ SubSeq(sheet'.rows[i], 1, Len(sheet.rows[i])) = sheet.rows[i]]_vars

\* C6: an append to a sheet that has data rows leaves the header as it was
\* and lays every new row out on the header: the record's cell where the
\* record has the column, the empty string where it has not, nothing for a
\* column the header lacks.
C6_SchemaProjection ==
    (upload.active /\ upload.added > 0 /\ upload.before.rows # <<>>) =>
        LET written == DropColumn(upload.newly_added, "unique_id")
            header == upload.before.header
            n == Len(upload.before.rows)
        IN  /\ sheet.header = header
            /\ Len(sheet.rows) = n + Len(written.rows)
            /\ \A k \in 1..Len(written.rows) :
                  sheet.rows[n + k]
                    = Tup([j \in 1..Len(header) |->
                             IF HasColumn(written, header[j])
                             THEN user_entered(written.rows[k][IndexOf(written.columns, header[j])])
                             ELSE <<>>])

\* the last fetch found every request of its unit answered by kind
AllAnswered(kind) == fetch.active /\ Range(fetch.log) = {kind}

\* C7: a unit whose every request fails with a transport error is given
\* exactly Len(API_URLS) * 2 requests, and no unit is ever given more.
C7_RetryBound ==
    /\ fetch.active => Len(fetch.log) <= Len(API_URLS) * AttemptsPerUrl
    /\ AllAnswered("transport") => Len(fetch.log) = Len(API_URLS) * AttemptsPerUrl

\* C7 witness: a fetch all of whose six requests failed with a transport error.
C7_Witness ==
    /\ AllAnswered("transport")
    /\ Len(fetch.log) = 6
    /\ ~fetch.is_real

\* a record generate_sample_data makes for the unit of the last fetch
IsSampleOf(rec, f) ==
    /\ DictGet(rec, "sggCd") = f.code
    /\ DictGet(rec, "year") \o DictGet(rec, "month") = f.month
    /\ DictGet(rec, "amount") \in SampleAmounts
    /\ DictGet(rec, "apt") = <<"test_apt_1">>

C9_ParseNotRetried ==
    fetch.active =>
        \A i \in 1..Len(fetch.log) :
            fetch.log[i] = "parse" => (i = Len(fetch.log) /\ fetch.data = <<>>)

\* C10: a response with a result code other than '00' and '99' ends the
\* requests of its unit, and the unit yields no record.
C10_ApiErrorNotRetried ==
    fetch.active =>
        \A i \in 1..Len(fetch.log) :
            fetch.log[i] = "api_error" => (i = Len(fetch.log) /\ fetch.data = <<>>)

\* C11: a response with the no-data result code '99' is the last request of
\* its unit; the unit returns no record, counts as real (no sample record is
\* generated) and the loop goes on.
C11_NoDataEndsFetch ==
    fetch.active =>
        \A i \in 1..Len(fetch.log) :
            fetch.log[i] = "nodata" =>
                /\ i = Len(fetch.log)
                /\ fetch.data = <<>>
                /\ fetch.is_real
                /\ pc = "loop"

\* C11 witness: the second region of a month answered '99' after a failed
\* attempt; the batch holds the record of the first region and still counts
\* as real.
C11_Witness ==
    /\ fetch.active
    /\ Len(fetch.log) = 2
    /\ fetch.log[2] = "nodata"
    /\ fetch.data = <<>>
    /\ fetch.is_real
    /\ Len(lawd_codes) >= 2
    /\ fetch.code = lawd_codes[2]
    /\ Len(monthly_data) = 1
    /\ monthly_real_data
    /\ pc = "loop"

\* the records the upstream holds for the unit of the last fetch, page by page
UpstreamPages(f) == <<f.script.then.items>> \o f.script.rest

\* C12: a unit whose upstream answers every request and holds k non-empty
\* pages is asked for pages 1, 2, ..., k+1 in k+1 requests, and the fetch
\* returns the records of all k pages.
C12_Pagination ==
    (fetch.active /\ fetch.script.fails = 0 /\ fetch.script.then.kind = "items") =>
        LET k == Len(UpstreamPages(fetch))
        IN  /\ fetch.pageNos = Tup([p \in 1..(k + 1) |-> p])
            /\ fetch.data = Flatten(UpstreamPages(fetch))

\* C13: a step in which the write of a month's batch fails (upload_to_sheet
\* returns -1) leaves the run in its loop at the next month, adds nothing to
\* total_added, and leaves the snapshot with the keys it had, none of them
\* the key of a record that was not written.
C13_WriteFailureConfined ==
    [][(/\ monthly_data # <<>>
        /\ monthly_data' = <<>>
        /\ upload'.active
        /\ ~upload'.raised
        /\ upload'.added = -1)
          => /\ pc' = "loop"
             /\ month_idx' = month_idx + 1
             /\ code_idx' = 1
             /\ total_added' = total_added
             /\ SnapshotKeys(df_existing') = SnapshotKeys(df_existing)
             /\ SnapshotKeys(df_existing') \cap KeysOf(upload'.newly_added) = {}]_vars

\* C13 witness: a region of the second month has been fetched after the
\* write of the first month failed; nothing was added.
C13_Witness ==
    /\ fetch.active
    /\ month_idx = 2
    /\ hist.write_errors = 1
    /\ total_added = 0
    /\ fetch.data # <<>>
    /\ pc = "loop"

\* the configuration errors of a run: no SERVICE_KEY, no
\* GOOGLE_CREDENTIALS_JSON, a region file from which no code is kept
ConfigError ==
    \/ ~env.SERVICE_KEY
    \/ env.GOOGLE_CREDENTIALS_JSON = "unset"
    \/ get_lawd_codes(env.csv, env.RUN_MODE) = <<>>

\* C14: a run that has ended on a configuration error has issued no HTTP
\* request.
C14_ConfigErrorBeforeNetwork ==
    (pc = "exit" /\ ConfigError) => http = "none"

\* C15: once the loop over the months has begun, nothing raises out of it:
\* the run is in the loop or has made its report.
C15_NothingRaisesOutOfLoop ==
    http = "api" => pc \in {"loop", "done"}

\* the fields the identity key is made of
IdentityFields == {"amount", "year", "month", "day", "area", "lot", "floor"}

\* row i of frame a and row j of frame b carry the same identity fields
\* with the same values
AgreeOnIdentity(a, i, b, j) ==
    \A c \in IdentityFields :
        /\ HasColumn(a, c) = HasColumn(b, c)
        /\ HasColumn(a, c) => Column(a, c)[i] = Column(b, c)[j]

\* the snapshot with the keys upload_to_sheet compares against
Keyed(snapshot) ==
    IF HasColumn(snapshot, "unique_id") THEN snapshot ELSE create_unique_id(snapshot)

DifferInRegion(a, i, b, j) ==
    /\ HasColumn(a, "sggCd")
    /\ HasColumn(b, "sggCd")
    /\ Column(a, "sggCd")[i] # Column(b, "sggCd")[j]

\* C17: the region code is part of the identity key: two records with
\* different region codes get different keys, be they two records of one
\* batch or a record of the batch and one of the snapshot.
C17_RegionCodeInKey ==
    (upload.active /\ ~upload.raised /\ HasColumn(create_unique_id(upload.df_new), "unique_id")) =>
        LET batch == create_unique_id(upload.df_new)
            old == Keyed(upload.snapshot)
        IN  /\ \A i, j \in 1..Len(batch.rows) :
                  DifferInRegion(batch, i, batch, j)
                     => Column(batch, "unique_id")[i] # Column(batch, "unique_id")[j]
            /\ \A i \in 1..Len(batch.rows) : \A j \in 1..Len(old.rows) :
                  DifferInRegion(batch, i, old, j)
                     => Column(batch, "unique_id")[i] # Column(old, "unique_id")[j]

\* C18: a '00' response whose items element holds no item ("empty_items":
\* the element has no child at all; "no_item": it has children, none of them
\* an item) is the last request of its unit, which returns no record and
\* counts as real.
C18_ZeroItemsEndsFetch ==
    fetch.active =>
        \A i \in 1..Len(fetch.log) :
            fetch.log[i] \in {"empty_items", "no_item"} =>
                /\ i = Len(fetch.log)
                /\ fetch.data = <<>>
                /\ fetch.is_real

\* the number of calls of try_api_with_fallback before event i of the run
FetchesBefore(i) ==
    Cardinality({ j \in 1..(i - 1) : hist.events[j][1] = "fetch" })

\* C19: the units are fetched month by month and, within a month, in the
\* order of the region list; the upload of a month comes after the fetch of
\* every region of that month and before the fetch of any region of the
\* next; no month is uploaded twice.
C19_OrderAndBatching ==
    \A i \in 1..Len(hist.events) :
        LET e == hist.events[i]
        IN  IF e[1] = "fetch"
            THEN FetchesBefore(i) = (e[2] - 1) * Len(lawd_codes) + (e[3] - 1)
            ELSE /\ FetchesBefore(i) = e[2] * Len(lawd_codes)
                 /\ \A j \in 1..Len(hist.events) :
                       (j # i /\ hist.events[j][1] = "upload") => hist.events[j][2] # e[2]

\* C19 witness: a run of two months, each fetched and then uploaded.
C19_Witness ==
    /\ pc = "done"
    /\ hist.events = << <<"fetch", 1, 1>>, <<"upload", 1, 0>>,
                        <<"fetch", 2, 1>>, <<"upload", 2, 0>> >>

\* the batch holds a record made by generate_sample_data
HasSample(df) ==
    /\ HasColumn(df, "apt")
    /\ <<"test_apt_1">> \in Range(Column(df, "apt"))

\* the data_type cells of the rows the last upload added to the sheet
NewLabels(u) ==
    { sheet.rows[Len(u.before.rows) + k][IndexOf(sheet.header, "data_type")] :
        k \in 1..u.added }

\* C20: when the batch of a month holds a sample record, every row written
\* for the month carries the sample label; a row carries the real label only
\* when no record of its batch is a sample record.
C20_SampleNeverLabelledReal ==
    (upload.active /\ upload.added > 0) =>
        /\ NewLabels(upload) \subseteq { <<"real">>, <<"sample">> }
        /\ HasSample(upload.df_new) => NewLabels(upload) = { <<"sample">> }
        /\ <<"real">> \in NewLabels(upload) => ~HasSample(upload.df_new)

\* C20 witness: a month's batch of one record of the API and one sample
\* record was written, both rows labelled as sample data.
C20_Witness ==
    /\ upload.active
    /\ upload.added = 2
    /\ HasSample(upload.df_new)
    /\ Column(upload.df_new, "apt")[1] # <<"test_apt_1">>
    /\ NewLabels(upload) = { <<"sample">> }

====
